---- MODULE Spec2Model ----
(***************************************************************************)
(* State-machine model of server/server.py: the accept loop (start/stop),  *)
(* the per-connection handler (handle_client, get_file,                    *)
(* _ensure_session_for_ip, record), the metrics snapshot                   *)
(* (_get_metrics_copy) and toggle_cache, with the aggregation lock         *)
(* metrics_lock.  Every thread is a process with a program counter; one    *)
(* action is one block of statements between two points at which another   *)
(* thread can observe or change the shared state.                          *)
(***************************************************************************)
EXTENDS Integers, Sequences, FiniteSets, TLC

(* ------------------------------ bounds -------------------------------- *)
\* worker threads of the pool (the program's default is 10)
NumWorkers == 2
\* connections the accept loop accepts in one run
MaxConns == 2
\* elapsed times (rt) are drawn from 1..MaxRT milliseconds
MaxRT == 2
\* external calls of toggle_cache in one run
MaxToggles == 2
\* external calls of stop() in one run
MaxStops == 2
\* capacity of the pool's task queue
QueueCap == 2
\* external calls of get_metrics in one run
MaxSnapshots == 1
\* requests already recorded when a run of the busy server begins
PriorRequests == 100
\* record() calls in one run on binary64 samples
MaxRecords == 4

(* -------------------------- program constants ------------------------- *)
MAX_RECENT == 100
MAX_LAT == 120
MAX_TIMES == 2000

(* ------------------------------ threads ------------------------------- *)
Workers == 1..NumWorkers
FREE == <<"free", 0>>
ACC == <<"accept", 0>>
TOG == <<"toggle", 0>>
RDR == <<"reader", 0>>
W(w) == <<"worker", w>>

(* ------------------------------- inputs ------------------------------- *)
\* peer addresses, as the character codes of the dotted string
IP1 == <<49, 46, 49, 46, 49, 46, 49>>   \* "1.1.1.1"
IP2 == <<49, 46, 49, 46, 49, 46, 50>>   \* "1.1.1.2"

\* server/static holds index.html (readable) and bad.html (exists, but the
\* read raises: not valid utf8); nothing else
ExistsAnyPath(path) == TRUE
Exists(path) == path \in {"/index.html", "/bad.html"}
Readable(path) == path = "/index.html"
FileBody(path) == "index"
Paths == {"/index.html", "/bad.html", "/nope"}

\* A connection's input: the peer ip, how the socket behaves ("ok",
\* "recv_err": recv raises, "send_err": sendall raises), whether recv
\* returns no bytes, the whitespace-separated tokens of the request line, and
\* the keywords (lower case) that occur in the User-Agent header.
MkInput(ip, io, empty, parts, ua) ==
  [ip |-> ip, io |-> io, empty |-> empty, parts |-> parts, ua |-> ua]
Get(ip, path, ua) == MkInput(ip, "ok", FALSE, <<"GET", path, "HTTP/1.1">>, ua)

AllInputs ==
  { Get(ip, "/", {}) : ip \in {IP1, IP2} }
  \cup { Get(IP1, "/nope", {"iphone", "mobile"}),
         Get(IP1, "/bad.html", {"ipad"}),
         MkInput(IP1, "ok", TRUE, <<>>, {}),
         MkInput(IP1, "ok", FALSE, <<"GET">>, {}),
         MkInput(IP1, "ok", FALSE, <<"GET", "/a", "b", "HTTP/1.1">>, {}),
         MkInput(IP1, "recv_err", FALSE, <<>>, {}),
         MkInput(IP1, "send_err", FALSE, <<"GET", "/", "HTTP/1.1">>, {}) }

\* the inputs of the runs with an external caller (of toggle_cache, of
\* get_metrics, of stop): a request of the default document and a request
\* line of one token
HomeInputs == { Get(IP1, "/", {}), MkInput(IP1, "ok", FALSE, <<"GET">>, {}) }

\* the inputs of the runs with a caller of toggle_cache: those, and a request
\* of a path with no file
CacheInputs == HomeInputs \cup { Get(IP1, "/nope", {}) }

(* --------------------------- pure functions --------------------------- *)
RECURSIVE SumSeq(_)
SumSeq(s) == IF s = <<>> THEN 0 ELSE Head(s) + SumSeq(Tail(s))

\* s[-n:]
LastN(s, n) == IF Len(s) <= n THEN s ELSE SubSeq(s, Len(s) - n + 1, Len(s))
FirstNFromEnd(s, n) ==
  IF Len(s) <= n THEN s ELSE SubSeq(s, Len(s) - n + 1, Len(s))
\* s[:n]
FirstN(s, n) == IF Len(s) <= n THEN s ELSE SubSeq(s, 1, n)

detect_device(ua) ==
  IF ua \cap {"mobile", "android", "iphone"} # {} THEN "mobile"
  ELSE IF ua \cap {"tablet", "ipad"} # {} THEN "tablet"
  ELSE "desktop"

Buckets == <<"IN", "US", "GB", "DE", "FR", "AU", "BR">>
guess_country_from_ip(ip) == Buckets[(SumSeq(ip) % Len(Buckets)) + 1]

(* ------------------------------- state -------------------------------- *)
VARIABLES
  metrics_lock,   \* the thread holding metrics_lock, or FREE
  metrics,        \* the metrics dictionary
  session_data,   \* ip -> session record (a function on the ips seen)
  file_cache,     \* path -> body (a function on the paths cached)
  running,        \* WebServer.running
  server_socket,  \* "unset" | "open" | "closed"
  pool,           \* the ThreadPool: [queue, shutdown]
  conns,          \* the accepted connections, in accept order
  apc,            \* the accept thread's position in start()
  pc,             \* each worker's position in handle_client
  loc,            \* each worker's local variables
  tog,            \* the caller of toggle_cache: [pc, calls]
  rdr,            \* the caller of get_metrics: [pc, times, p95, p99, ...]
  spc,            \* the external caller of stop(): [pc, calls]
  hist            \* the uuid generator, and history: disk reads per path,
                  \* the cache and the reads at the last disabling toggle,
                  \* stop() calls begun and completed, whether start()
                  \* wrote server_socket or running after a stop() began,
                  \* and the stop() calls begun after start() began

vars == <<metrics_lock, metrics, session_data, file_cache, running,
          server_socket, pool, conns, apc, pc, loc, tog, rdr, spc, hist>>

NoLoc == [conn |-> 0, path |-> "", status_code |-> 0, sid |-> 0, rt |-> 0,
          device |-> ""]

EmptyFn == [x \in {} |-> 0]

NoRdr == [pc |-> "idle", calls |-> 0, times |-> <<>>, p95 |-> 0, p99 |-> 0,
          summary |-> EmptyFn, snap |-> EmptyFn]

\* lines 14-31
NoMetrics ==
  [active_clients |-> 0, total_requests |-> 0,
   average_response_time |-> [num |-> 0, den |-> 1],
   recent_requests |-> <<>>, cache_enabled |-> TRUE,
   cache_hits |-> 0, cache_misses |-> 0, response_times |-> <<>>,
   unique_sessions |-> 0, thread_pool_size |-> NumWorkers,
   queue_size |-> 0, latency_trend |-> <<>>,
   status_codes |-> [c \in {200, 400, 404, 500} |-> 0],
   geo |-> EmptyFn]

NoHist == [uuid |-> 0, reads |-> [p \in Paths |-> 0],
           off_cached |-> {}, off_reads |-> [p \in Paths |-> 0],
           stops_begun |-> 0, stops_done |-> 0, start_raced |-> FALSE,
           stops_of_started |-> 0]

Init ==
  /\ metrics_lock = FREE
  /\ metrics = NoMetrics
  /\ session_data = EmptyFn
  /\ file_cache = EmptyFn
  /\ running = FALSE
  /\ server_socket = "unset"
  /\ pool = [queue |-> <<>>, shutdown |-> FALSE]
  /\ conns = <<>>
  /\ apc = "start"
  /\ pc = [w \in Workers |-> "idle"]
  /\ loc = [w \in Workers |-> NoLoc]
  /\ tog = [pc |-> "idle", calls |-> 0]
  /\ rdr = NoRdr
  /\ spc = [pc |-> "idle", calls |-> 0]
  /\ hist = NoHist

\* the server once start() has bound the socket and set running (lines
\* 73-78), before the first connection
InitServing ==
  /\ metrics_lock = FREE
  /\ metrics = NoMetrics
  /\ session_data = EmptyFn
  /\ file_cache = EmptyFn
  /\ running = TRUE
  /\ server_socket = "open"
  /\ pool = [queue |-> <<>>, shutdown |-> FALSE]
  /\ conns = <<>>
  /\ apc = "loop"
  /\ pc = [w \in Workers |-> "idle"]
  /\ loc = [w \in Workers |-> NoLoc]
  /\ tog = [pc |-> "idle", calls |-> 0]
  /\ rdr = NoRdr
  /\ spc = [pc |-> "idle", calls |-> 0]
  /\ hist = NoHist

\* The server after PriorRequests requests, accepted and handled one after
\* the other, each a request line of one token sent from IP1 (answered 400,
\* recorded with path "/" and device "unknown"), the i-th taking PriorRT(i)
\* milliseconds: the accept loop is at its test, the workers are idle, the
\* connections of those requests are closed and are not listed in conns.
PriorRT(i) == 1 + (i % MaxRT)
PriorTimes == [i \in 1..PriorRequests |-> PriorRT(i)]
PriorEntry(i) ==
  [ip |-> IP1, path |-> "/", response_time |-> PriorRT(i),
   status_code |-> 400, country |-> guess_country_from_ip(IP1), seq |-> i]
PriorLog ==
  [k \in 1..(IF PriorRequests <= MAX_RECENT THEN PriorRequests
              ELSE MAX_RECENT) |-> PriorEntry(PriorRequests - k + 1)]

InitBusy ==
  /\ metrics_lock = FREE
  /\ metrics = [active_clients |-> 0, total_requests |-> PriorRequests,
                average_response_time |->
                  [num |-> SumSeq(LastN(PriorTimes, MAX_TIMES)),
                   den |-> Len(LastN(PriorTimes, MAX_TIMES))],
                recent_requests |-> PriorLog, cache_enabled |-> TRUE,
                cache_hits |-> 0, cache_misses |-> 0,
                response_times |-> LastN(PriorTimes, MAX_TIMES),
                unique_sessions |-> 0, thread_pool_size |-> NumWorkers,
                queue_size |-> 0,
                latency_trend |-> LastN(PriorTimes, MAX_LAT),
                status_codes |-> [c \in {200, 400, 404, 500} |->
                                   IF c = 400 THEN PriorRequests ELSE 0],
                geo |-> (guess_country_from_ip(IP1) :> PriorRequests)]
  /\ session_data =
       (IP1 :> [session_id |-> 1, hit_count |-> PriorRequests,
                last_path |-> "/", device_type |-> "unknown"])
  /\ file_cache = EmptyFn
  /\ running = TRUE
  /\ server_socket = "open"
  /\ pool = [queue |-> <<>>, shutdown |-> FALSE]
  /\ conns = <<>>
  /\ apc = "loop"
  /\ pc = [w \in Workers |-> "idle"]
  /\ loc = [w \in Workers |-> NoLoc]
  /\ tog = [pc |-> "idle", calls |-> 0]
  /\ rdr = NoRdr
  /\ spc = [pc |-> "idle", calls |-> 0]
  /\ hist = [uuid |-> 1, reads |-> [p \in Paths |-> 0],
             off_cached |-> {}, off_reads |-> [p \in Paths |-> 0],
             stops_begun |-> 0, stops_done |-> 0, start_raced |-> FALSE,
             stops_of_started |-> 0]

(* ----------------------------- the lock ------------------------------- *)
\* `with metrics_lock:` entered by thread t
Acquire(t) == metrics_lock = FREE /\ metrics_lock' = t
\* the end of the with block
Release(t) == metrics_lock = t /\ metrics_lock' = FREE
Holds(t) == metrics_lock = t /\ UNCHANGED metrics_lock

SetPc(w, l) == pc' = [pc EXCEPT ![w] = l]

(* --------------------------- WebServer.start -------------------------- *)
\* lines 73-77: bind and listen; a bind failure logs and returns
StartBind ==
  /\ apc = "start"
  /\ \/ /\ server_socket' = "open"
        /\ apc' = "set_running"
        /\ hist' = [hist EXCEPT !.start_raced = @ \/ hist.stops_begun > 0]
     \/ apc' = "returned" /\ UNCHANGED <<server_socket, hist>>
  /\ UNCHANGED <<metrics_lock, metrics, session_data, file_cache, running,
                 pool, conns, pc, loc, tog, rdr, spc>>

\* line 78
StartRun ==
  /\ apc = "set_running"
  /\ running' = TRUE
  /\ apc' = "loop"
  /\ hist' = [hist EXCEPT !.start_raced = @ \/ hist.stops_begun > 0]
  /\ UNCHANGED <<metrics_lock, metrics, session_data, file_cache,
                 server_socket, pool, conns, pc, loc, tog, rdr, spc>>

\* line 84: while self.running
AccLoop ==
  /\ apc = "loop"
  /\ apc' = IF running THEN "accept" ELSE "stop_run"
  /\ UNCHANGED <<metrics_lock, metrics, session_data, file_cache, running,
                 server_socket, pool, conns, pc, loc, tog, rdr, spc, hist>>

NewConn(inp) ==
  [ip |-> inp.ip, io |-> inp.io, empty |-> inp.empty, parts |-> inp.parts,
   ua |-> inp.ua, closes |-> 0, resp |-> 0]

\* line 86: accept() returns a connection of a peer sending one of the
\* inputs S
Accept(S) ==
  /\ apc = "accept"
  /\ server_socket = "open"
  /\ Len(conns) < MaxConns
  /\ \E inp \in S : conns' = Append(conns, NewConn(inp))
  /\ apc' = "submit"
  /\ UNCHANGED <<metrics_lock, metrics, session_data, file_cache, running,
                 server_socket, pool, pc, loc, tog, rdr, spc, hist>>

\* line 86 raising because the listening socket is closed; lines 93-95
AcceptRaises ==
  /\ apc = "accept"
  /\ server_socket = "closed"
  /\ apc' = "loop"
  /\ UNCHANGED <<metrics_lock, metrics, session_data, file_cache, running,
                 server_socket, pool, conns, pc, loc, tog, rdr, spc, hist>>

\* ThreadPool.submit: enqueues the task, blocks while the queue is full, and
\* raises once the pool has been shut down
PoolSubmit(c) ==
  /\ ~pool.shutdown
  /\ Len(pool.queue) < QueueCap
  /\ pool' = [pool EXCEPT !.queue = Append(@, c)]

\* line 87
Submit ==
  /\ apc = "submit"
  /\ PoolSubmit(Len(conns))
  /\ apc' = "qs_acq"
  /\ UNCHANGED <<metrics_lock, metrics, session_data, file_cache, running,
                 server_socket, conns, pc, loc, tog, rdr, spc, hist>>

\* line 87 raising, and lines 93-95: back to the loop test
SubmitRaises ==
  /\ apc = "submit"
  /\ pool.shutdown
  /\ apc' = "loop"
  /\ UNCHANGED <<metrics_lock, metrics, session_data, file_cache, running,
                 server_socket, pool, conns, pc, loc, tog, rdr, spc, hist>>

\* line 88
AccQsAcq ==
  /\ apc = "qs_acq"
  /\ Acquire(ACC)
  /\ apc' = "qs_set"
  /\ UNCHANGED <<metrics, session_data, file_cache, running, server_socket,
                 pool, conns, pc, loc, tog, rdr, spc, hist>>

\* lines 89-92
AccQsSet ==
  /\ apc = "qs_set"
  /\ Release(ACC)
  /\ metrics' = [metrics EXCEPT !.queue_size = Len(pool.queue)]
  /\ apc' = "loop"
  /\ UNCHANGED <<session_data, file_cache, running, server_socket, pool,
                 conns, pc, loc, tog, rdr, spc, hist>>

(* ----------------------- WebServer.handle_client ---------------------- *)
\* a worker of the pool takes the oldest task: handle_client(client, addr)
WorkerTake(w) ==
  /\ pc[w] = "idle"
  /\ pool.queue # <<>>
  /\ loc' = [loc EXCEPT ![w] = [NoLoc EXCEPT !.conn = Head(pool.queue)]]
  /\ pool' = [pool EXCEPT !.queue = Tail(@)]
  /\ SetPc(w, "inc_acq")
  /\ UNCHANGED <<metrics_lock, metrics, session_data, file_cache, running,
                 server_socket, conns, apc, tog, rdr, spc, hist>>

\* line 114
HIncAcq(w) ==
  /\ pc[w] = "inc_acq"
  /\ Acquire(W(w))
  /\ SetPc(w, "inc")
  /\ UNCHANGED <<metrics, session_data, file_cache, running, server_socket,
                 pool, conns, apc, loc, tog, rdr, spc, hist>>

\* line 115
HInc(w) ==
  /\ pc[w] = "inc"
  /\ Release(W(w))
  /\ metrics' = [metrics EXCEPT !.active_clients = @ + 1]
  /\ SetPc(w, "recv")
  /\ UNCHANGED <<session_data, file_cache, running, server_socket, pool,
                 conns, apc, loc, tog, rdr, spc, hist>>

\* lines 119-120 with 172-176: the return of an empty read runs the finally
\* clause before handle_client ends
AfterReturnSkipsFinally == "idle"
AfterReturn == "close"

\* lines 119-120: `if not req`
EmptyReadIgnored(c) == FALSE
EmptyRead(c) == c.empty

\* line 125: `if len(parts) < 3`
TooFewPartsOnlyNone(parts) == Len(parts) < 1
TooFewParts(parts) == Len(parts) < 3

\* lines 118-149: recv (an exception is caught at line 170), the return of
\* an empty read, split, the 400 answer of a short request line (lines
\* 127-131: the write is tried, rt taken, record called with path "/" and
\* device "unknown"), the unpacking of exactly three tokens (line 135: a
\* ValueError otherwise, caught at line 170), the default document, the
\* sleep and the headers
HRecv(w) ==
  LET c == conns[loc[w].conn] IN
  /\ pc[w] = "recv"
  /\ IF c.io = "recv_err"
     THEN /\ SetPc(w, "close")
          /\ UNCHANGED <<loc, conns>>
     ELSE IF EmptyRead(c)
     THEN /\ SetPc(w, AfterReturn)
          /\ UNCHANGED <<loc, conns>>
     ELSE IF TooFewParts(c.parts)
     THEN /\ conns' = [conns EXCEPT ![loc[w].conn].resp =
                         IF c.io = "send_err" THEN 0 ELSE 400]
          /\ \E rt \in 1..MaxRT :
               loc' = [loc EXCEPT ![w].status_code = 400, ![w].rt = rt,
                                  ![w].path = "/", ![w].device = "unknown"]
          /\ SetPc(w, "rec_acq")
     ELSE IF Len(c.parts) # 3
     THEN /\ SetPc(w, "close")
          /\ UNCHANGED <<loc, conns>>
     ELSE /\ loc' = [loc EXCEPT ![w].path =
                       IF c.parts[2] = "/" THEN "/index.html" ELSE c.parts[2]]
          /\ SetPc(w, "gf_enabled")
          /\ UNCHANGED conns
  /\ UNCHANGED <<metrics_lock, metrics, session_data, file_cache, running,
                 server_socket, pool, apc, tog, rdr, spc, hist>>

(* -------------------------- WebServer.get_file ------------------------ *)
\* line 198, left operand: metrics["cache_enabled"], read without the lock
GfEnabled(w) ==
  /\ pc[w] = "gf_enabled"
  /\ SetPc(w, IF metrics.cache_enabled THEN "gf_present" ELSE "gf_miss_acq")
  /\ UNCHANGED <<metrics_lock, metrics, session_data, file_cache, running,
                 server_socket, pool, conns, apc, loc, tog, rdr, spc, hist>>

\* line 198, right operand: path in file_cache
GfPresent(w) ==
  /\ pc[w] = "gf_present"
  /\ SetPc(w, IF loc[w].path \in DOMAIN file_cache THEN "gf_hit_acq"
              ELSE "gf_miss_acq")
  /\ UNCHANGED <<metrics_lock, metrics, session_data, file_cache, running,
                 server_socket, pool, conns, apc, loc, tog, rdr, spc, hist>>

\* line 199
GfHitAcq(w) ==
  /\ pc[w] = "gf_hit_acq"
  /\ Acquire(W(w))
  /\ SetPc(w, "gf_hit_inc")
  /\ UNCHANGED <<metrics, session_data, file_cache, running, server_socket,
                 pool, conns, apc, loc, tog, rdr, spc, hist>>

\* line 200
GfHitInc(w) ==
  /\ pc[w] = "gf_hit_inc"
  /\ Release(W(w))
  /\ metrics' = [metrics EXCEPT !.cache_hits = @ + 1]
  /\ SetPc(w, "gf_hit_ret")
  /\ UNCHANGED <<session_data, file_cache, running, server_socket, pool,
                 conns, apc, loc, tog, rdr, spc, hist>>

\* line 201: file_cache[path]["body"]; a KeyError when the entry is gone
\* is caught at line 170
GfHitRet(w) ==
  /\ pc[w] = "gf_hit_ret"
  /\ IF loc[w].path \in DOMAIN file_cache
     THEN /\ loc' = [loc EXCEPT ![w].status_code = 200]
          /\ SetPc(w, "ens_check")
     ELSE /\ SetPc(w, "close")
          /\ UNCHANGED loc
  /\ UNCHANGED <<metrics_lock, metrics, session_data, file_cache, running,
                 server_socket, pool, conns, apc, tog, rdr, spc, hist>>

\* line 203
GfMissAcq(w) ==
  /\ pc[w] = "gf_miss_acq"
  /\ Acquire(W(w))
  /\ SetPc(w, "gf_miss_inc")
  /\ UNCHANGED <<metrics, session_data, file_cache, running, server_socket,
                 pool, conns, apc, loc, tog, rdr, spc, hist>>

\* line 204
GfMissInc(w) ==
  /\ pc[w] = "gf_miss_inc"
  /\ Release(W(w))
  /\ metrics' = [metrics EXCEPT !.cache_misses = @ + 1]
  /\ SetPc(w, "gf_read")
  /\ UNCHANGED <<session_data, file_cache, running, server_socket, pool,
                 conns, apc, loc, tog, rdr, spc, hist>>

\* lines 206-215 and 220-221: the lookup on disk (404 when there is no such
\* file), the read (500 when it raises), and the unlocked test of
\* metrics["cache_enabled"] that decides whether line 217 runs;
\* hist.reads counts the reads of each path
GfRead(w) ==
  LET path == loc[w].path IN
  /\ pc[w] = "gf_read"
  /\ IF ~Exists(path)
     THEN /\ loc' = [loc EXCEPT ![w].status_code = 404]
          /\ SetPc(w, "ens_check")
          /\ UNCHANGED hist
     ELSE IF ~Readable(path)
     THEN /\ loc' = [loc EXCEPT ![w].status_code = 500]
          /\ SetPc(w, "ens_check")
          /\ UNCHANGED hist
     ELSE /\ loc' = [loc EXCEPT ![w].status_code = 200]
          /\ hist' = [hist EXCEPT !.reads[path] = @ + 1]
          /\ SetPc(w, IF metrics.cache_enabled THEN "gf_store" ELSE "ens_check")
  /\ UNCHANGED <<metrics_lock, metrics, session_data, file_cache, running,
                 server_socket, pool, conns, apc, tog, rdr, spc>>

\* line 217: file_cache[path] = resp, written without the lock
GfStore(w) ==
  /\ pc[w] = "gf_store"
  /\ file_cache' = (loc[w].path :> FileBody(loc[w].path)) @@ file_cache
  /\ SetPc(w, "ens_check")
  /\ UNCHANGED <<metrics_lock, metrics, session_data, running, server_socket,
                 pool, conns, apc, loc, tog, rdr, spc, hist>>

(* ------------------- WebServer._ensure_session_for_ip ----------------- *)
NewSession(sid, device) ==
  [session_id |-> sid, hit_count |-> 0, last_path |-> "None",
   device_type |-> device]

\* lines 180-181
EnsCheck(w) ==
  LET ip == conns[loc[w].conn].ip IN
  /\ pc[w] = "ens_check"
  /\ IF ip \in DOMAIN session_data
     THEN /\ loc' = [loc EXCEPT ![w].sid = session_data[ip].session_id]
          /\ SetPc(w, "send")
     ELSE /\ SetPc(w, "ens_store")
          /\ UNCHANGED loc
  /\ UNCHANGED <<metrics_lock, metrics, session_data, file_cache, running,
                 server_socket, pool, conns, apc, tog, rdr, spc, hist>>

\* lines 182-190: a fresh uuid, and session_data[ip] written without the lock
EnsStore(w) ==
  LET ip == conns[loc[w].conn].ip
      sid == hist.uuid + 1 IN
  /\ pc[w] = "ens_store"
  /\ hist' = [hist EXCEPT !.uuid = sid]
  /\ session_data' = (ip :> NewSession(sid, "unknown")) @@ session_data
  /\ loc' = [loc EXCEPT ![w].sid = sid]
  /\ SetPc(w, "ens_acq")
  /\ UNCHANGED <<metrics_lock, metrics, file_cache, running, server_socket,
                 pool, conns, apc, tog, rdr, spc>>

\* line 191
EnsAcq(w) ==
  /\ pc[w] = "ens_acq"
  /\ Acquire(W(w))
  /\ SetPc(w, "ens_count")
  /\ UNCHANGED <<metrics, session_data, file_cache, running, server_socket,
                 pool, conns, apc, loc, tog, rdr, spc, hist>>

\* line 192
EnsCount(w) ==
  /\ pc[w] = "ens_count"
  /\ Release(W(w))
  /\ metrics' = [metrics EXCEPT
                   !.unique_sessions = Cardinality(DOMAIN session_data)]
  /\ SetPc(w, "send")
  /\ UNCHANGED <<session_data, file_cache, running, server_socket, pool,
                 conns, apc, loc, tog, rdr, spc, hist>>

(* ------------------- handle_client, after get_file -------------------- *)
\* lines 155-167: the response is written in one sendall (an exception of
\* sendall is caught at line 170), then rt and the device class
HSend(w) ==
  LET c == conns[loc[w].conn] IN
  /\ pc[w] = "send"
  /\ IF c.io = "send_err"
     THEN /\ SetPc(w, "close")
          /\ UNCHANGED <<loc, conns>>
     ELSE /\ conns' = [conns EXCEPT ![loc[w].conn].resp = loc[w].status_code]
          /\ \E rt \in 1..MaxRT :
               loc' = [loc EXCEPT ![w].rt = rt,
                                  ![w].device = detect_device(c.ua)]
          /\ SetPc(w, "rec_acq")
  /\ UNCHANGED <<metrics_lock, metrics, session_data, file_cache, running,
                 server_socket, pool, apc, tog, rdr, spc, hist>>

(* ------------------- binary64 arithmetic of record() ------------------ *)
\* rt = time.time() - start is a Python float, an IEEE 754 binary64 value.
\* A positive one is [m, e]: m the 53 bits of its significand, the least
\* significant first and the last one 1, and e the exponent of the least
\* significant bit.  Double(frac, exp) is the value float.hex() prints as
\* 0x1.<frac>p<exp>, frac being its 13 hexadecimal digits.
Nibble(h) == <<h % 2, (h \div 2) % 2, (h \div 4) % 2, h \div 8>>
RECURSIVE HexBits(_)
HexBits(frac) ==
  IF frac = <<>> THEN <<>> ELSE HexBits(Tail(frac)) \o Nibble(Head(frac))
Double(frac, exp) == [m |-> HexBits(frac) \o <<1>>, e |-> exp - 52]

Zeros(k) == [i \in 1..k |-> 0]
Reverse(s) == [i \in 1..Len(s) |-> s[Len(s) - i + 1]]

\* A natural is given by its bits, the least significant first, and is
\* computed with in limbs of 15 bits (every intermediate value is below
\* 2^31).
Base == 32768
RECURSIVE Pow2(_)
Pow2(k) == IF k = 0 THEN 1 ELSE 2 * Pow2(k - 1)
RECURSIVE NatBits(_)
NatBits(n) == IF n = 0 THEN <<>> ELSE <<n % 2>> \o NatBits(n \div 2)
RECURSIVE BitsNat(_)
BitsNat(b) == IF b = <<>> THEN 0 ELSE Head(b) + 2 * BitsNat(Tail(b))

\* without the zeros at the most significant end
Strip(b) ==
  LET ones == {i \in 1..Len(b) : b[i] = 1}
  IN IF ones = {} THEN <<>>
     ELSE SubSeq(b, 1, CHOOSE i \in ones : \A j \in ones : j <= i)

RECURSIVE Limbs(_)
Limbs(b) ==
  IF b = <<>> THEN <<>>
  ELSE IF Len(b) <= 15 THEN <<BitsNat(b)>>
  ELSE <<BitsNat(SubSeq(b, 1, 15))>> \o Limbs(SubSeq(b, 16, Len(b)))
LimbBits(l) ==
  Strip([i \in 1..(15 * Len(l)) |->
           (l[((i - 1) \div 15) + 1] \div Pow2((i - 1) % 15)) % 2])

RECURSIVE LimbAdd(_, _, _)
LimbAdd(a, b, c) ==
  IF a = <<>> /\ b = <<>> THEN (IF c = 0 THEN <<>> ELSE <<c>>)
  ELSE LET t == (IF a = <<>> THEN 0 ELSE Head(a))
                + (IF b = <<>> THEN 0 ELSE Head(b)) + c
       IN <<t % Base>> \o LimbAdd(IF a = <<>> THEN a ELSE Tail(a),
                                  IF b = <<>> THEN b ELSE Tail(b),
                                  t \div Base)
\* a + b
BitAdd(a, b) == LimbBits(LimbAdd(Limbs(a), Limbs(b), 0))

RECURSIVE LimbSub(_, _, _)
LimbSub(a, b, c) ==
  IF a = <<>> THEN <<>>
  ELSE LET t == Head(a) - (IF b = <<>> THEN 0 ELSE Head(b)) - c
       IN <<t % Base>> \o LimbSub(Tail(a), IF b = <<>> THEN b ELSE Tail(b),
                                  IF t < 0 THEN 1 ELSE 0)
\* a - b, for a >= b
BitSub(a, b) == LimbBits(LimbSub(Limbs(a), Limbs(b), 0))

RECURSIVE LimbMul(_, _, _)
LimbMul(a, n, c) ==
  IF a = <<>> THEN (IF c = 0 THEN <<>> ELSE <<c>>)
  ELSE LET t == Head(a) * n + c
       IN <<t % Base>> \o LimbMul(Tail(a), n, t \div Base)
\* b * n, for a natural n below 2^14
BitMul(b, n) == LimbBits(LimbMul(Limbs(b), n, 0))

\* long division by a natural n below 2^14, the limbs given most
\* significant first: the limbs of the quotient and the remainder
RECURSIVE LimbDiv(_, _, _)
LimbDiv(l, n, rem) ==
  IF l = <<>> THEN [q |-> <<>>, r |-> rem]
  ELSE LET t == rem * Base + Head(l)
           d == LimbDiv(Tail(l), n, t % n)
       IN [q |-> <<t \div n>> \o d.q, r |-> d.r]
LongDiv(b, n) ==
  LET d == LimbDiv(Reverse(Limbs(b)), n, 0)
  IN [q |-> LimbBits(Reverse(d.q)), r |-> d.r]

\* round-to-nearest, ties-to-even, of b * 2^e (plus a positive rest smaller
\* than 2^e when sticky) to 53 bits
Rounded(b, e, sticky) ==
  LET d == Len(b) - 53 IN
  IF d <= 0 THEN [m |-> Zeros(-d) \o b, e |-> e + d]
  ELSE LET kept == SubSeq(b, d + 1, Len(b))
           rest == sticky \/ \E i \in 1..(d - 1) : b[i] = 1
           up == b[d] = 1 /\ (rest \/ kept[1] = 1)
           r == IF up THEN BitAdd(kept, <<1>>) ELSE kept
       IN IF Len(r) > 53 THEN [m |-> Tail(r), e |-> e + d + 1]
          ELSE [m |-> r, e |-> e + d]

\* x + y
FAdd(x, y) ==
  LET e == IF x.e <= y.e THEN x.e ELSE y.e
  IN Rounded(BitAdd(Zeros(x.e - e) \o x.m, Zeros(y.e - e) \o y.m), e, FALSE)

\* x - y, for x > y > 0
FSub(x, y) ==
  LET e == IF x.e <= y.e THEN x.e ELSE y.e
  IN Rounded(BitSub(Zeros(x.e - e) \o x.m, Zeros(y.e - e) \o y.m), e, FALSE)

\* x * n, n a whole number below 2^14 (rt * 1000.0, the products of
\* quantiles())
FMulInt(x, n) == Rounded(BitMul(x.m, n), x.e, FALSE)

\* x / n, n a whole number below 2^14 (len(times) <= 2000, 100, 10000): the
\* quotient of x * 2^16 has at least 55 bits, the remainder makes the rest
FDivInt(x, n) ==
  LET d == LongDiv(Zeros(16) \o x.m, n)
  IN Rounded(d.q, x.e - 16, d.r # 0)

\* round(x, ndigits) with scale = 10^ndigits: the decimal of ndigits digits
\* nearest to x (ties to even), then the binary64 value nearest to that
\* decimal; x * scale is at least 1/2 and has an exponent below 0 for the
\* values of the runs
FRound(x, scale) ==
  LET p == BitMul(x.m, scale)
      k == -x.e
      whole == SubSeq(p, k + 1, Len(p))
      rest == \E i \in 1..(k - 1) : p[i] = 1
      up == p[k] = 1 /\ (rest \/ (whole # <<>> /\ whole[1] = 1))
      D == BitsNat(whole) + (IF up THEN 1 ELSE 0)
  IN FDivInt(Rounded(NatBits(D), 0, FALSE), scale)

\* 0.0
FZero == [m |-> <<>>, e |-> 0]

\* x <= y
FLeq(x, y) ==
  \/ x = FZero
  \/ y # FZero /\ x.e < y.e
  \/ /\ y # FZero /\ x.e = y.e
     /\ \/ x.m = y.m
        \/ \E i \in 1..53 : /\ x.m[i] < y.m[i]
                             /\ \A j \in (i + 1)..53 : x.m[j] = y.m[j]

\* sum(times), times not empty: the builtin adds from left to right, starting
\* from the int 0 (0 + times[0] is times[0])
RECURSIVE FSumFrom(_, _)
FSumFrom(acc, rest) ==
  IF rest = <<>> THEN acc ELSE FSumFrom(FAdd(acc, Head(rest)), Tail(rest))
FSum(times) == FSumFrom(Head(times), Tail(times))

\* line 231 on binary64 samples
FMean(times) == FDivInt(FSum(times), Len(times))
\* line 235 on a binary64 sample
FMs(rt) == FMulInt(rt, 1000)

\* round(rt, 4) of line 246
FRound4(rt) == FRound(rt, 10000)

\* the elapsed times of the runs on binary64 samples: 0.020115, 0.05, 0.1
\* and 0.15 s
Samples ==
  { Double(<<4, 9, 9, 0, 6, 12, 12, 10, 2, 13, 11, 6, 2>>, -6),
    Double(<<9, 9, 9, 9, 9, 9, 9, 9, 9, 9, 9, 9, 10>>, -5),
    Double(<<9, 9, 9, 9, 9, 9, 9, 9, 9, 9, 9, 9, 10>>, -4),
    Double(<<3, 3, 3, 3, 3, 3, 3, 3, 3, 3, 3, 3, 3>>, -3) }

(* --------------------------- WebServer.record ------------------------- *)
\* line 225
RecAcq(w) ==
  /\ pc[w] = "rec_acq"
  /\ Acquire(W(w))
  /\ SetPc(w, "rec_metrics")
  /\ UNCHANGED <<metrics, session_data, file_cache, running, server_socket,
                 pool, conns, apc, loc, tog, rdr, spc, hist>>

\* lines 226-251, on the metrics dictionary m.  Times are kept in
\* milliseconds: response_times holds rt, latency_trend rt * 1000.0, which
\* is the same number of milliseconds; the average is the exact quotient
\* num / den.  The field seq of a log entry is history: the ordinal of the
\* record() call that inserted it (the entry's "time" is the clock read
\* under the lock).  mean is the quotient of line 231 and ms the product of
\* line 235 in the arithmetic of the samples, r4 the round(rt, 4) of
\* line 246; RecordedTimes is the window after lines 227-228.
RecordedTimes(m, rt) == LastN(Append(m.response_times, rt), MAX_TIMES)
RecordMetricsWith(mean, ms, r4, m, ip, path, rt, status_code) ==
  LET times == RecordedTimes(m, rt)
      codes == IF status_code \in DOMAIN m.status_codes THEN m.status_codes
               ELSE (status_code :> 0) @@ m.status_codes
      entry == [ip |-> ip, path |-> path, response_time |-> r4,
                status_code |-> status_code,
                country |-> guess_country_from_ip(ip),
                seq |-> m.total_requests + 1]
  IN [m EXCEPT
        !.total_requests = @ + 1,
        !.response_times = times,
        !.average_response_time = mean,
        !.latency_trend = LastN(Append(@, ms), MAX_LAT),
        !.status_codes = [codes EXCEPT ![status_code] = @ + 1],
        !.recent_requests = FirstN(<<entry>> \o @, MAX_RECENT)]

\* whole milliseconds: the quotient is kept exact, rt * 1000.0 is the same
\* number of milliseconds, and round(rt, 4) keeps whole milliseconds
ExactMean(times) == [num |-> SumSeq(times), den |-> Len(times)]
SameMs(rt) == rt
RecordMetrics(m, ip, path, rt, status_code) ==
  RecordMetricsWith(ExactMean(RecordedTimes(m, rt)), SameMs(rt), SameMs(rt),
                    m, ip, path, rt, status_code)

\* lines 226-254: the metrics, then the test `ip not in session_data`
RecMetrics(w) ==
  LET ip == conns[loc[w].conn].ip IN
  /\ pc[w] = "rec_metrics"
  /\ Holds(W(w))
  /\ metrics' = RecordMetrics(metrics, ip, loc[w].path, loc[w].rt,
                              loc[w].status_code)
  /\ SetPc(w, IF ip \in DOMAIN session_data THEN "rec_update"
              ELSE "rec_create")
  /\ UNCHANGED <<session_data, file_cache, running, server_socket, pool,
                 conns, apc, loc, tog, rdr, spc, hist>>

\* lines 255-262
RecCreate(w) ==
  LET ip == conns[loc[w].conn].ip
      sid == hist.uuid + 1 IN
  /\ pc[w] = "rec_create"
  /\ Holds(W(w))
  /\ hist' = [hist EXCEPT !.uuid = sid]
  /\ session_data' = (ip :> NewSession(sid, loc[w].device)) @@ session_data
  /\ SetPc(w, "rec_update")
  /\ UNCHANGED <<metrics, file_cache, running, server_socket, pool, conns,
                 apc, loc, tog, rdr, spc>>

\* lines 270-272 on the geo dictionary g
RecordGeoOverwrite(g, country) == (country :> 1) @@ g
RecordGeo(g, country) ==
  LET g0 == IF country \in DOMAIN g THEN g ELSE (country :> 0) @@ g
  IN [g0 EXCEPT ![country] = @ + 1]

\* lines 263-272 and the end of the with block
RecUpdate(w) ==
  LET ip == conns[loc[w].conn].ip IN
  /\ pc[w] = "rec_update"
  /\ Release(W(w))
  /\ session_data' = [session_data EXCEPT
                        ![ip].hit_count = @ + 1,
                        ![ip].last_path = loc[w].path,
                        ![ip].device_type = loc[w].device]
  /\ metrics' = [metrics EXCEPT
                   !.geo = RecordGeo(@, guess_country_from_ip(ip))]
  /\ SetPc(w, "close")
  /\ UNCHANGED <<file_cache, running, server_socket, pool, conns, apc, loc,
                 tog, rdr, spc, hist>>

\* record() from its first line to its last, called with a binary64 rt: the
\* lock is taken at line 225 and held to the end, so the call is one step
\* for every other holder of the lock
record(ip, path, rt, status_code, device) ==
  LET m == RecordMetricsWith(FMean(RecordedTimes(metrics, rt)), FMs(rt),
                             FRound4(rt), metrics, ip, path, rt, status_code)
      created == IF ip \in DOMAIN session_data THEN session_data
                 ELSE (ip :> NewSession(hist.uuid + 1, device)) @@ session_data
  IN /\ metrics_lock = FREE
     /\ metrics.total_requests < MaxRecords
     /\ metrics' = [m EXCEPT !.geo = RecordGeo(@, guess_country_from_ip(ip))]
     /\ session_data' = [created EXCEPT ![ip].hit_count = @ + 1,
                                        ![ip].last_path = path,
                                        ![ip].device_type = device]
     /\ hist' = IF ip \in DOMAIN session_data THEN hist
                ELSE [hist EXCEPT !.uuid = @ + 1]
     /\ UNCHANGED <<metrics_lock, file_cache, running, server_socket, pool,
                    conns, apc, pc, loc, tog, rdr, spc>>

(* ---------------------- handle_client, the finally -------------------- *)
\* line 173
HClose(w) ==
  /\ pc[w] = "close"
  /\ conns' = [conns EXCEPT ![loc[w].conn].closes = @ + 1]
  /\ SetPc(w, "dec_acq")
  /\ UNCHANGED <<metrics_lock, metrics, session_data, file_cache, running,
                 server_socket, pool, apc, loc, tog, rdr, spc, hist>>

\* line 175
HDecAcq(w) ==
  /\ pc[w] = "dec_acq"
  /\ Acquire(W(w))
  /\ SetPc(w, "dec")
  /\ UNCHANGED <<metrics, session_data, file_cache, running, server_socket,
                 pool, conns, apc, loc, tog, rdr, spc, hist>>

Max(a, b) == IF a >= b THEN a ELSE b

\* line 176; the worker then waits for its next task
HDec(w) ==
  /\ pc[w] = "dec"
  /\ Release(W(w))
  /\ metrics' = [metrics EXCEPT
                   !.active_clients = Max(0, @ - 1)]
  /\ loc' = [loc EXCEPT ![w] = NoLoc]
  /\ SetPc(w, "idle")
  /\ UNCHANGED <<session_data, file_cache, running, server_socket, pool,
                 conns, apc, tog, rdr, spc, hist>>

(* ----------------------------- toggle_cache --------------------------- *)
\* line 341
TogAcq ==
  /\ tog.pc = "idle"
  /\ tog.calls < MaxToggles
  /\ Acquire(TOG)
  /\ tog' = [tog EXCEPT !.pc = "flip"]
  /\ UNCHANGED <<metrics, session_data, file_cache, running, server_socket,
                 pool, conns, apc, pc, loc, rdr, spc, hist>>

\* lines 342-345
TogFlip ==
  LET enabled == ~metrics.cache_enabled IN
  /\ tog.pc = "flip"
  /\ Release(TOG)
  /\ metrics' = [metrics EXCEPT !.cache_enabled = enabled]
  /\ file_cache' = IF enabled THEN file_cache ELSE EmptyFn
  /\ hist' = IF enabled THEN hist
             ELSE [hist EXCEPT !.off_cached = DOMAIN file_cache,
                               !.off_reads = hist.reads]
  /\ tog' = [pc |-> "idle", calls |-> tog.calls + 1]
  /\ UNCHANGED <<session_data, running, server_socket, pool, conns, apc, pc,
                 loc, rdr, spc>>

(* --------------------------- _calc_percentiles ------------------------ *)
RECURSIVE Insert(_, _)
Insert(x, s) == IF s = <<>> THEN <<x>>
                ELSE IF x <= Head(s) THEN <<x>> \o s
                ELSE <<Head(s)>> \o Insert(x, Tail(s))
RECURSIVE Sorted(_)
Sorted(s) == IF s = <<>> THEN <<>> ELSE Insert(Head(s), Sorted(Tail(s)))

\* statistics.quantiles(times, n=100)[i-1], method "exclusive", times 100
\* (the interpolation divides by n = 100), for two or more samples
Quantile100(times, i) ==
  LET data == Sorted(times)
      ld == Len(data)
      m == ld + 1
      j0 == (i * m) \div 100
      j == IF j0 < 1 THEN 1 ELSE IF j0 > ld - 1 THEN ld - 1 ELSE j0
      delta == i * m - j * 100
  IN data[j] * (100 - delta) + data[j + 1] * delta

\* lines 288-297, in hundredths of a millisecond (the result is rounded to
\* two decimals of a millisecond): quantiles() for two or more samples, and
\* for a single sample the sample itself (line 296: idx = 0)
_calc_percentiles(times, pct) ==
  IF times = <<>> THEN 0
  ELSE IF Len(times) = 1
       THEN 100 * Sorted(times)[Max(0, (Len(times) * pct) \div 100 - 1) + 1]
       ELSE Quantile100(times, pct)

\* the same on binary64 samples.  sorted(): insertion in the order FLeq
RECURSIVE FInsert(_, _)
FInsert(x, s) == IF s = <<>> THEN <<x>>
                 ELSE IF FLeq(x, Head(s)) THEN <<x>> \o s
                 ELSE <<Head(s)>> \o FInsert(x, Tail(s))
RECURSIVE FSorted(_)
FSorted(s) == IF s = <<>> THEN <<>> ELSE FInsert(Head(s), FSorted(Tail(s)))

\* statistics.quantiles(times, n=100)[i-1], method "exclusive":
\* (data[j-1] * (n - delta) + data[j] * delta) / n, each product, the sum
\* and the quotient rounded; delta exceeds n when j is clamped to ld - 1,
\* and the first product is then negative
FQuantile(times, i) ==
  LET data == FSorted(times)
      ld == Len(data)
      m == ld + 1
      j0 == (i * m) \div 100
      j == IF j0 < 1 THEN 1 ELSE IF j0 > ld - 1 THEN ld - 1 ELSE j0
      delta == i * m - j * 100
      lo == data[j]
      hi == data[j + 1]
      total ==
        IF delta = 0 THEN FMulInt(lo, 100)
        ELSE IF delta = 100 THEN FMulInt(hi, 100)
        ELSE IF delta < 100
             THEN FAdd(FMulInt(lo, 100 - delta), FMulInt(hi, delta))
        ELSE FSub(FMulInt(hi, delta), FMulInt(lo, delta - 100))
  IN FDivInt(total, 100)

\* lines 288-297: quantiles() raises for fewer than two samples, and the
\* fallback then takes times_ms[max(0, int(len * pct / 100) - 1)]
FCalcPercentiles(times, pct) ==
  IF times = <<>> THEN FZero
  ELSE IF Len(times) = 1
       THEN FRound(FMulInt(times[Max(0, (Len(times) * pct) \div 100 - 1) + 1],
                           1000), 100)
       ELSE FRound(FMulInt(FQuantile(times, pct), 1000), 100)

(* --------------------------- _get_metrics_copy ------------------------ *)
\* line 301
RdrAcq ==
  /\ rdr.pc = "idle"
  /\ rdr.calls < MaxSnapshots
  /\ Acquire(RDR)
  /\ rdr' = [rdr EXCEPT !.pc = "times"]
  /\ UNCHANGED <<metrics, session_data, file_cache, running, server_socket,
                 pool, conns, apc, pc, loc, tog, spc, hist>>

RdrTimesUnlocked ==
  LET times == metrics.response_times IN
  /\ rdr.pc = "times"
  /\ Release(RDR)
  /\ rdr' = [rdr EXCEPT !.pc = "build", !.times = times,
                        !.p95 = _calc_percentiles(times, 95),
                        !.p99 = _calc_percentiles(times, 99),
                        !.summary = session_data]
  /\ UNCHANGED <<metrics, session_data, file_cache, running, server_socket,
                 pool, conns, apc, pc, loc, tog, spc, hist>>

\* lines 302-315: the copy of the window, the percentiles of the copy, and
\* the session summary
RdrTimes ==
  LET times == metrics.response_times IN
  /\ rdr.pc = "times"
  /\ Holds(RDR)
  /\ rdr' = [rdr EXCEPT !.pc = "build", !.times = times,
                        !.p95 = _calc_percentiles(times, 95),
                        !.p99 = _calc_percentiles(times, 99),
                        !.summary = session_data]
  /\ UNCHANGED <<metrics, session_data, file_cache, running, server_socket,
                 pool, conns, apc, pc, loc, tog, spc, hist>>

\* lines 302-315 on a window of binary64 samples
RdrTimes64 ==
  LET times == metrics.response_times IN
  /\ rdr.pc = "times"
  /\ Holds(RDR)
  /\ rdr' = [rdr EXCEPT !.pc = "build", !.times = times,
                        !.p95 = FCalcPercentiles(times, 95),
                        !.p99 = FCalcPercentiles(times, 99),
                        !.summary = session_data]
  /\ UNCHANGED <<metrics, session_data, file_cache, running, server_socket,
                 pool, conns, apc, pc, loc, tog, spc, hist>>

\* lines 317-334: the other fields are read from metrics, and the lock is
\* released on return
RdrBuild ==
  /\ rdr.pc = "build"
  /\ Release(RDR)
  /\ rdr' = [rdr EXCEPT
               !.pc = "idle", !.calls = @ + 1,
               !.snap = [metrics EXCEPT
                           !.unique_sessions = Cardinality(DOMAIN session_data)]]
  /\ UNCHANGED <<metrics, session_data, file_cache, running, server_socket,
                 pool, conns, apc, pc, loc, tog, spc, hist>>

(* ---------------------------- WebServer.stop -------------------------- *)
\* lines 101-104: close() of a server_socket that start() has not set raises
\* AttributeError, which the except clause swallows; line 105 is next
StopCloseNextUncaught ==
  IF server_socket = "unset" THEN "raised" ELSE "stop_shutdown"
StopCloseNext == "stop_shutdown"

\* ThreadPool.shutdown: no new task is accepted; calling it again changes
\* nothing
PoolShutdown == pool' = [pool EXCEPT !.shutdown = TRUE]

\* line 100; hist.stops_of_started counts the calls made once start() has
\* begun to run
StopRunEffect ==
  /\ running' = FALSE
  /\ hist' = [hist EXCEPT !.stops_begun = @ + 1,
                          !.stops_of_started =
                            IF apc = "start" THEN @ ELSE @ + 1]
  /\ UNCHANGED <<metrics_lock, metrics, session_data, file_cache,
                 server_socket, pool, conns, pc, loc, tog, rdr>>

\* lines 101-104
StopCloseEffect ==
  /\ server_socket' = IF server_socket = "unset" THEN "unset" ELSE "closed"
  /\ UNCHANGED <<metrics_lock, metrics, session_data, file_cache, running,
                 pool, conns, pc, loc, tog, rdr, hist>>

\* lines 105-109
StopShutdownEffect ==
  /\ PoolShutdown
  /\ hist' = [hist EXCEPT !.stops_done = @ + 1]
  /\ UNCHANGED <<metrics_lock, metrics, session_data, file_cache, running,
                 server_socket, conns, pc, loc, tog, rdr>>

\* stop() called by an external thread, one call after the other
StopRun ==
  /\ spc.pc = "idle"
  /\ spc.calls < MaxStops
  /\ StopRunEffect
  /\ spc' = [spc EXCEPT !.pc = "stop_close"]
  /\ UNCHANGED apc

StopClose ==
  /\ spc.pc = "stop_close"
  /\ StopCloseEffect
  /\ spc' = [spc EXCEPT !.pc = StopCloseNext]
  /\ UNCHANGED apc

StopShutdown ==
  /\ spc.pc = "stop_shutdown"
  /\ StopShutdownEffect
  /\ spc' = [pc |-> "idle", calls |-> spc.calls + 1]
  /\ UNCHANGED apc

\* line 97: stop() called by start() when the loop ends
AccStopRun ==
  /\ apc = "stop_run"
  /\ StopRunEffect
  /\ apc' = "stop_close"
  /\ UNCHANGED spc

AccStopClose ==
  /\ apc = "stop_close"
  /\ StopCloseEffect
  /\ apc' = StopCloseNext
  /\ UNCHANGED spc

AccStopShutdown ==
  /\ apc = "stop_shutdown"
  /\ StopShutdownEffect
  /\ apc' = "returned"
  /\ UNCHANGED spc

(* --------------------------- specifications --------------------------- *)
Handler(w) ==
  \/ WorkerTake(w) \/ HIncAcq(w) \/ HInc(w) \/ HRecv(w)
  \/ GfEnabled(w) \/ GfPresent(w) \/ GfHitAcq(w) \/ GfHitInc(w)
  \/ GfHitRet(w) \/ GfMissAcq(w) \/ GfMissInc(w) \/ GfRead(w) \/ GfStore(w)
  \/ EnsCheck(w) \/ EnsStore(w) \/ EnsAcq(w) \/ EnsCount(w)
  \/ HSend(w) \/ RecAcq(w) \/ RecMetrics(w) \/ RecCreate(w) \/ RecUpdate(w)
  \/ HClose(w) \/ HDecAcq(w) \/ HDec(w)

Acceptor(S) ==
  \/ StartBind \/ StartRun \/ AccLoop \/ Accept(S) \/ Submit
  \/ AccQsAcq \/ AccQsSet

\* the server with no external caller: the accept loop and the workers
Next == Acceptor(AllInputs) \/ \E w \in Workers : Handler(w)

Spec == Init /\ [][Next]_vars

\* the server and a caller of toggle_cache
NextCache ==
  \/ Acceptor(CacheInputs) \/ (\E w \in Workers : Handler(w))
  \/ TogAcq \/ TogFlip

SpecCache == Init /\ [][NextCache]_vars

\* the server and a caller of get_metrics
NextSnap ==
  \/ Acceptor(HomeInputs) \/ (\E w \in Workers : Handler(w))
  \/ RdrAcq \/ RdrTimes \/ RdrBuild

SpecSnap == Init /\ [][NextSnap]_vars

\* the inputs of the runs that compare the counters: two peers whose ips
\* fall into different geo buckets, and requests recorded with status 200,
\* 400 and 404
TotalsInputs ==
  { Get(IP2, "/", {}), MkInput(IP1, "ok", FALSE, <<"GET">>, {}),
    Get(IP1, "/nope", {}) }

\* the server under those inputs and a caller of get_metrics
NextTotals ==
  \/ Acceptor(TotalsInputs) \/ (\E w \in Workers : Handler(w))
  \/ RdrAcq \/ RdrTimes \/ RdrBuild

SpecTotals == Init /\ [][NextTotals]_vars

\* the server and the callers of stop()
NextStop ==
  \/ Acceptor(HomeInputs) \/ AcceptRaises \/ SubmitRaises
  \/ AccStopRun \/ AccStopClose \/ AccStopShutdown
  \/ (\E w \in Workers : Handler(w))
  \/ StopRun \/ StopClose \/ StopShutdown

SpecStop == Init /\ [][NextStop]_vars

\* the same with the threads scheduled fairly: the accept thread, each
\* worker and a stop() call that has begun keep running while they can (a
\* further call of stop() is the caller's choice and is not forced)
AcceptorSteps ==
  \/ Acceptor(HomeInputs) \/ AcceptRaises \/ SubmitRaises
  \/ AccStopRun \/ AccStopClose \/ AccStopShutdown

SpecStopFair ==
  /\ SpecStop
  /\ WF_vars(AcceptorSteps)
  /\ \A w \in Workers : WF_vars(Handler(w))
  /\ WF_vars(StopClose \/ StopShutdown)

\* the busy server: the accept loop (already running) and the workers, with
\* requests of a second peer
BusyInputs == { Get(IP2, "/", {}), MkInput(IP2, "ok", FALSE, <<"GET">>, {}) }

NextBusy ==
  \/ AccLoop \/ Accept(BusyInputs) \/ Submit \/ AccQsAcq \/ AccQsSet
  \/ (\E w \in Workers : Handler(w))

SpecBusy == InitBusy /\ [][NextBusy]_vars

\* the aggregator alone: record() as the handlers call it, one call after
\* the other, for 400 answers (lines 131-132) whose elapsed times are
\* binary64 values
NextAverage == \E rt \in Samples : record(IP1, "/", rt, 400, "unknown")

SpecAverage == InitServing /\ [][NextAverage]_vars

\* the aggregator and a caller of get_metrics, on binary64 samples
NextPercentile == NextAverage \/ RdrAcq \/ RdrTimes64 \/ RdrBuild

SpecPercentile == InitServing /\ [][NextPercentile]_vars

(* ------------------------------- claims ------------------------------- *)
Conns == 1..Len(conns)
Done(c) == conns[c].closes >= 1
AllIdle == \A w \in Workers : pc[w] = "idle"

\* C1: when the first two requests of one ip, handled concurrently, have both
\* been recorded and their connections closed, that ip has a session whose
\* hit_count is 2.
C1_TwoFirstContactsCountTwo ==
  ( /\ Len(conns) = 2
    /\ conns[1].ip = conns[2].ip
    /\ Done(1) /\ Done(2)
    /\ metrics.total_requests = 2 )
  => ( /\ conns[1].ip \in DOMAIN session_data
       /\ session_data[conns[1].ip].hit_count = 2 )

\* C2: with the cache enabled throughout (no toggle_cache in Spec), the file
\* of a path is read from disk at most once, however many requests ask for it.
C2_OneDiskReadPerPath ==
  metrics.cache_enabled => \A p \in Paths : hist.reads[p] <= 1

\* C3: once the cache has been turned off and on again, an entry of the cache
\* for a path that was cached at the off-toggle comes from a disk read made
\* after that toggle (so the next request of the path had to resolve it anew).
C3_NoEntrySurvivesOffOn ==
  (tog.calls >= 2 /\ metrics.cache_enabled)
  => \A p \in hist.off_cached \cap DOMAIN file_cache :
       hist.reads[p] > hist.off_reads[p]

\* C4: a closed connection whose handler read a non-empty request, on a
\* socket that did not fail, has been sent a response with status 200, 400,
\* 404 or 500.
C4_EveryRequestAnswered ==
  \A c \in Conns :
    (Done(c) /\ conns[c].io = "ok" /\ ~conns[c].empty)
    => conns[c].resp \in {200, 400, 404, 500}

\* the connection is still owned by the accept loop, the pool or a worker
Owned(c) ==
  \/ apc = "submit" /\ c = Len(conns)
  \/ \E i \in 1..Len(pool.queue) : pool.queue[i] = c
  \/ \E w \in Workers : loc[w].conn = c

\* C5: no accepted connection is closed twice, and one that is not closed is
\* still on its way to being closed: held by the accept loop before submit,
\* queued in the pool, or in the hands of a worker.
C5_ClosedExactlyOnce ==
  \A c \in Conns :
    /\ conns[c].closes <= 1
    /\ conns[c].closes = 0 => Owned(c)

\* the handlers between the increment (line 115) and the decrement (line 176)
Counted == { w \in Workers : pc[w] \notin {"idle", "inc_acq", "inc"} }

\* C6: active_clients equals the number of handlers in flight: each finished
\* invocation has given back its increment on whatever path it ended, and
\* with no handler in flight the counter is at its initial value 0.
C6_ActiveClientsBalanced ==
  metrics.active_clients = Cardinality(Counted)

\* two requests with a short request line have been handled to the end
C6_Witness ==
  /\ Len(conns) = 2
  /\ \A c \in Conns : Done(c) /\ ~conns[c].empty /\ Len(conns[c].parts) < 3
  /\ AllIdle
  /\ metrics.total_requests = 2
  /\ metrics.active_clients = 0

SharedWritten ==
  \/ file_cache' # file_cache
  \/ session_data' # session_data
  \/ metrics' # metrics

\* C7: every step of a thread that changes file_cache, session_data or
\* metrics is taken while that thread holds metrics_lock.
C7_WritesHoldLock ==
  [][ /\ \A w \in Workers :
           (pc'[w] # pc[w] /\ SharedWritten) => metrics_lock = W(w)
      /\ (apc' # apc /\ SharedWritten) => metrics_lock = ACC ]_vars

Average(times) ==
  IF times = <<>> THEN [num |-> 0, den |-> 1]
  ELSE [num |-> SumSeq(times), den |-> Len(times)]

\* C8: between the reads of one snapshot the window does not change, and the
\* snapshot returned is of one moment: its average, its request total and its
\* latency trend are those of the window its percentiles were computed from.
C8_SnapshotPointInTime ==
  /\ rdr.pc = "build" =>
       /\ metrics.response_times = rdr.times
       /\ metrics.average_response_time = Average(rdr.times)
  /\ (rdr.pc = "idle" /\ rdr.calls >= 1) =>
       /\ rdr.snap.average_response_time = Average(rdr.times)
       /\ rdr.snap.total_requests = Len(rdr.times)
       /\ rdr.snap.latency_trend = rdr.times

\* the reader is between its reads, on a window of one sample, while a
\* handler waits at record's `with metrics_lock`
C8_Witness ==
  /\ rdr.pc = "build"
  /\ Len(rdr.times) = 1
  /\ \E w \in Workers : pc[w] = "rec_acq"

\* C9: the session_id of an ip's session never changes once the session
\* exists.
C9_SessionIdImmutable ==
  [][ \A ip \in DOMAIN session_data :
        session_data'[ip].session_id = session_data[ip].session_id ]_vars

\* C10: no call of stop() raises, and once one call has completed (start()
\* not having written server_socket or running since a stop() began) the
\* state is the one a single call leaves, during and after every further
\* call: running false, listening socket not open, pool shut down.
C10_StopIdempotent ==
  /\ spc.pc # "raised"
  /\ apc # "raised"
  /\ (hist.stops_done >= 1 /\ ~hist.start_raced) =>
       (~running /\ server_socket # "open" /\ pool.shutdown)

\* stop() has completed three times on a started server: twice from the
\* external thread and once from the accept loop's own exit
C10_Witness ==
  /\ hist.stops_done = 3
  /\ spc.calls = 2
  /\ apc = "returned"
  /\ ~hist.start_raced
  /\ server_socket = "closed"
  /\ ~running /\ pool.shutdown

\* the request line read on connection c has one or two tokens
ShortLine(c) ==
  /\ conns[c].io = "ok" /\ ~conns[c].empty
  /\ Len(conns[c].parts) < 3

\* record() has counted the request of connection c in the histogram
Histogrammed(c) ==
  \/ Done(c)
  \/ \E w \in Workers :
       loc[w].conn = c /\ pc[w] \in {"rec_create", "rec_update", "close"}

\* C11: a request whose line has fewer than 3 tokens is answered 400 and is
\* recorded once, with status 400, path "/" and device "unknown": the "400"
\* count is exactly the number of such requests recorded; its handler never
\* enters get_file or _ensure_session_for_ip.
C11_ShortLineIs400 ==
  /\ \A w \in Workers :
       (pc[w] \notin {"idle", "inc_acq", "inc", "recv"}
        /\ ShortLine(loc[w].conn))
       => /\ pc[w] \in {"rec_acq", "rec_metrics", "rec_create", "rec_update",
                        "close", "dec_acq", "dec"}
          /\ conns[loc[w].conn].resp = 400
          /\ loc[w].status_code = 400
          /\ loc[w].path = "/"
          /\ loc[w].device = "unknown"
  /\ \A c \in Conns : (Done(c) /\ ShortLine(c)) => conns[c].resp = 400
  /\ metrics.status_codes[400] =
       Cardinality({c \in Conns : ShortLine(c) /\ Histogrammed(c)})

\* a request line of one token has been answered 400 and recorded, next to a
\* request of the default document
C11_Witness ==
  /\ Len(conns) = 2
  /\ ShortLine(1) /\ Done(1) /\ conns[1].resp = 400
  /\ conns[2].resp = 200 /\ Done(2)
  /\ AllIdle
  /\ metrics.status_codes[400] = 1 /\ metrics.status_codes[200] = 1
  /\ hist.reads["/index.html"] = 1

\* the paths requested in the runs that have no file under server/static
MissingPaths == {"/nope"}

\* connection c sent a well-formed request of a path with no file, on a
\* socket that did not fail
AsksMissing(c) ==
  /\ conns[c].io = "ok" /\ ~conns[c].empty
  /\ Len(conns[c].parts) = 3
  /\ conns[c].parts[2] \in MissingPaths

\* C12: a request of a path with no file is answered 404, and the cache
\* never holds an entry for such a path, whether the cache is enabled or
\* disabled and however toggle_cache and the handlers interleave.
C12_MissingPathIs404 ==
  /\ DOMAIN file_cache \cap MissingPaths = {}
  /\ \A c \in Conns : (Done(c) /\ AsksMissing(c)) => conns[c].resp = 404
  /\ \A w \in Workers :
       (pc[w] \in {"ens_check", "ens_store", "ens_acq", "ens_count", "send"}
        /\ AsksMissing(loc[w].conn))
       => loc[w].status_code = 404

\* a missing path was requested twice, once with the cache disabled and once
\* enabled again; both got 404
C12_Witness ==
  /\ Len(conns) = 2
  /\ \A c \in Conns : AsksMissing(c) /\ Done(c) /\ conns[c].resp = 404
  /\ tog.calls = 2 /\ metrics.cache_enabled
  /\ metrics.cache_misses = 2
  /\ metrics.status_codes[404] = 2
  /\ file_cache = EmptyFn

\* C13: the recent-request log has at most 100 entries, and its i-th entry is
\* the one inserted by the i-th most recent record() call: the newest is
\* first and the entries are in the reverse order of the calls, whatever the
\* number of requests recorded.
C13_LogBoundedNewestFirst ==
  LET log == metrics.recent_requests IN
  /\ Len(log) <= MAX_RECENT
  /\ Len(log) = IF metrics.total_requests <= MAX_RECENT
                THEN metrics.total_requests ELSE MAX_RECENT
  /\ \A i \in 1..Len(log) : log[i].seq = metrics.total_requests - i + 1

\* two requests have been recorded on top of a log that was full: the two
\* oldest entries are gone and the newest is first
C13_Witness ==
  /\ metrics.total_requests = PriorRequests + 2
  /\ metrics.total_requests > MAX_RECENT
  /\ Len(metrics.recent_requests) = MAX_RECENT
  /\ metrics.recent_requests[1].ip = IP2
  /\ metrics.recent_requests[MAX_RECENT].seq = PriorRequests + 3 - MAX_RECENT
  /\ AllIdle

LoopExited == apc \in {"stop_run", "stop_close", "stop_shutdown", "returned"}

\* C16: once stop() has been called on a server whose start() has begun to
\* run, the accept loop eventually exits and from then on running stays
\* false, in every fair interleaving, also when stop() runs before start()
\* has set running.
C16_StopEndsLoop ==
  (hist.stops_of_started >= 1) ~> [](LoopExited /\ ~running)

\* C17: once a stop() has returned (the pool shut down), the accept thread
\* executes no call of thread_pool.submit (line 87), also not for a connection
\* that accept() returned before stop() ran.
C17_NoSubmitAfterShutdown ==
  [][ (apc = "submit" /\ apc' # apc)
      => ~(pool.shutdown /\ hist.stops_done >= 1) ]_vars

\* C18: whenever no toggle_cache call is in progress and the cache is
\* disabled, the cache is empty (a get_file that tested the flag while the
\* cache was enabled stores nothing after the disabling toggle cleared it).
C18_DisabledCacheEmpty ==
  (tog.pc = "idle" /\ ~metrics.cache_enabled) => file_cache = EmptyFn

\* recv on connection c returned no bytes
ReadNothing(c) == conns[c].io # "recv_err" /\ conns[c].empty

\* worker w takes this step while it runs handle_client on a connection
\* whose read returns no bytes
EmptyReadStep(w) ==
  /\ pc'[w] # pc[w]
  /\ loc[w].conn # 0
  /\ ReadNothing(loc[w].conn)

\* C19: every step of a handler whose read returns no bytes leaves the
\* metrics other than active_clients, the session table and the cache as
\* they are and writes no response; active_clients goes up by one at line
\* 115 and down by one at line 176, the connection is closed once at line
\* 173, and the handler goes from the read straight to the finally clause.
C19_EmptyReadFrame ==
  [][ \A w \in Workers :
        EmptyReadStep(w)
        => LET c == loc[w].conn IN
           /\ metrics' = [metrics EXCEPT
                            !.active_clients = metrics'.active_clients]
           /\ metrics'.active_clients - metrics.active_clients =
                IF pc[w] = "inc" THEN 1
                ELSE IF pc[w] = "dec" THEN 0 - 1 ELSE 0
           /\ session_data' = session_data
           /\ file_cache' = file_cache
           /\ conns[c].resp = 0 /\ conns'[c].resp = 0
           /\ conns'[c].closes =
                conns[c].closes + (IF pc[w] = "close" THEN 1 ELSE 0)
           /\ pc[w] = "recv" => pc'[w] = "close"
           /\ pc'[w] = "idle" => conns'[c].closes = 1
    ]_vars

\* a handler of an empty read has run to its end next to a handler that
\* recorded a request, and only the latter is counted
C19_Witness ==
  /\ Len(conns) = 2
  /\ ReadNothing(1) /\ Done(1) /\ conns[1].resp = 0
  /\ ~conns[2].empty /\ Done(2) /\ conns[2].resp = 200
  /\ AllIdle
  /\ metrics.total_requests = 1
  /\ metrics.active_clients = 0

\* the sum of the counts of a dictionary of counters
RECURSIVE SumCounts(_)
SumCounts(f) ==
  IF DOMAIN f = {} THEN 0
  ELSE LET k == CHOOSE x \in DOMAIN f : TRUE
       IN f[k] + SumCounts([x \in DOMAIN f \ {k} |-> f[x]])

\* the three counters of the dictionary m agree
TotalsAgree(m) ==
  /\ m.total_requests = SumCounts(m.status_codes)
  /\ m.total_requests = SumCounts(m.geo)

\* some handler is between the first and the last statement of record()'s
\* with block
InsideRecord ==
  \E w \in Workers : pc[w] \in {"rec_metrics", "rec_create", "rec_update"}

\* C20: whenever no thread is inside record(), total_requests equals the sum
\* of the status-code counts and the sum of the geo counts; every snapshot
\* that get_metrics returned shows the same two equalities.
C20_TotalsAgree ==
  /\ ~InsideRecord => TotalsAgree(metrics)
  /\ rdr.calls >= 1 => TotalsAgree(rdr.snap)

\* two requests of different status from peers of two geo buckets have been
\* recorded, and a snapshot was taken after the first of them
C20_Witness ==
  /\ ~InsideRecord
  /\ metrics.total_requests = 2
  /\ Cardinality(DOMAIN metrics.geo) = 2
  /\ metrics.status_codes[200] = 1 /\ metrics.status_codes[404] = 1
  /\ rdr.calls = 1 /\ rdr.snap.total_requests = 1
====
